---- MODULE Spec2Model ----
(***************************************************************************)
(* The notebook astropy_units_introduction.ipynb as a state machine.       *)
(*                                                                         *)
(* State: the kernel's namespace (the names the cells bind), the output    *)
(* and the exception of the cell executed last, and the cells still queued *)
(* by a "run all".  One step executes one code cell, statement after       *)
(* statement, stopping at the first exception.                             *)
(*                                                                         *)
(* The quantity / unit / constant objects are those of astropy, used as    *)
(* the cells use them.  Numbers are exact positive rationals kept as the   *)
(* exponents of their prime factors (299792458 * 3600000 does not fit a    *)
(* machine integer of the model checker); float rounding is not modelled.  *)
(***************************************************************************)
EXTENDS Integers, Sequences, FiniteSets, TLC

VARIABLES ns, out, err, last, queue, mode

vars == <<ns, out, err, last, queue, mode>>

(***************************************************************************)
(* Numbers: 0, or a positive rational  prod p^e[p]  over Primes.           *)
(***************************************************************************)
Primes == {2, 3, 5, 7, 11, 41, 73, 127, 307, 293339}

Zero == [z |-> TRUE, e |-> [p \in Primes |-> 0]]

One == [z |-> FALSE, e |-> [p \in Primes |-> 0]]

RECURSIVE Mult(_, _)
Mult(n, p) == IF n % p = 0 THEN 1 + Mult(n \div p, p) ELSE 0

RECURSIVE IPow(_, _)
IPow(b, k) == IF k <= 0 THEN 1 ELSE b * IPow(b, k - 1)

RECURSIVE Prod(_, _)
Prod(S, e) ==
    IF S = {} THEN 1
    ELSE LET p == CHOOSE q \in S : TRUE
         IN  IPow(p, e[p]) * Prod(S \ {p}, e)

\* the integer n >= 0 as a number; an n with a prime factor outside Primes
\* has no representation and stops the evaluation (no arm of the CASE)
FromInt(n) ==
    IF n = 0 THEN Zero
    ELSE LET e == [p \in Primes |-> Mult(n, p)]
         IN  CASE Prod(Primes, e) = n -> [z |-> FALSE, e |-> e]

\* numerator and denominator of a number in lowest terms
Numer(x) == IF x.z THEN 0 ELSE Prod(Primes, [p \in Primes |-> IF x.e[p] > 0 THEN x.e[p] ELSE 0])

Denom(x) == IF x.z THEN 1 ELSE Prod(Primes, [p \in Primes |-> IF x.e[p] < 0 THEN 0 - x.e[p] ELSE 0])

NMul(a, b) ==
    IF a.z \/ b.z THEN Zero
    ELSE [z |-> FALSE, e |-> [p \in Primes |-> a.e[p] + b.e[p]]]

\* b is not zero
NDiv(a, b) ==
    IF a.z THEN Zero
    ELSE [z |-> FALSE, e |-> [p \in Primes |-> a.e[p] - b.e[p]]]

NPow(a, k) ==
    IF a.z THEN Zero
    ELSE [z |-> FALSE, e |-> [p \in Primes |-> a.e[p] * k]]

NAdd(a, b) ==
    NDiv(FromInt(Numer(a) * Denom(b) + Numer(b) * Denom(a)),
         FromInt(Denom(a) * Denom(b)))

\* the decimal literal  digits / 10^places
FromDec(digits, places) == NDiv(FromInt(digits), FromInt(IPow(10, places)))

(***************************************************************************)
(* Units: a product of powers of named units, as astropy's composite       *)
(* units (scale 1 throughout the notebook).                                *)
(***************************************************************************)
UnitNames == {"m", "s", "cm", "mi", "h", "Mpc"}

NoPowers == [n \in UnitNames |-> 0]

Unit(powers) == [kind |-> "unit", powers |-> powers]

Named(n) == Unit([NoPowers EXCEPT ![n] = 1])

dimensionless_unscaled == Unit(NoPowers)

\* the physical dimension a named unit measures
DimOf(n) == IF n \in {"s", "h"} THEN "time" ELSE "length"

\* the table of units with the mile taken as the base unit of length
SIFactorMileAsOne(n) ==
    CASE n = "m"  -> One
      [] n = "s"  -> One
      [] n = "cm" -> FromDec(1, 2)
      [] n = "mi" -> One
      [] n = "h"  -> FromInt(3600)

\* the value of a named unit in the SI unit of its dimension (m or s).
\* The parsec is not a rational multiple of the metre; no cell converts Mpc.
SIFactor(n) ==
    CASE n = "m"  -> One
      [] n = "s"  -> One
      [] n = "cm" -> FromDec(1, 2)
      [] n = "mi" -> FromDec(1609344, 3)
      [] n = "h"  -> FromInt(3600)

UnitMul(a, b) == Unit([n \in UnitNames |-> a.powers[n] + b.powers[n]])

UnitDiv(a, b) == Unit([n \in UnitNames |-> a.powers[n] - b.powers[n]])

UnitPow(a, k) == Unit([n \in UnitNames |-> a.powers[n] * k])

RECURSIVE SumPow(_, _)
SumPow(S, powers) ==
    IF S = {} THEN 0
    ELSE LET n == CHOOSE q \in S : TRUE
         IN  powers[n] + SumPow(S \ {n}, powers)

\* the physical type of a unit: the exponents of length and of time
PhysicalType(unit) ==
    [d \in {"length", "time"} |->
        SumPow({n \in UnitNames : DimOf(n) = d}, unit.powers)]

IsEquivalent(a, b) == PhysicalType(a) = PhysicalType(b)

IsDimensionless(unit) == IsEquivalent(unit, dimensionless_unscaled)

RECURSIVE ScaleOver(_, _)
ScaleOver(S, powers) ==
    IF S = {} THEN One
    ELSE LET n == CHOOSE q \in S : TRUE
         IN  NMul(NPow(SIFactor(n), powers[n]), ScaleOver(S \ {n}, powers))

\* the value of one `unit` in SI base units
SIScale(unit) == ScaleOver({n \in UnitNames : unit.powers[n] # 0}, unit.powers)

\* the unit made of the given length and time units with the type of `unit`
InBases(unit, lengthUnit, timeUnit) ==
    Unit([n \in UnitNames |->
            IF n = lengthUnit THEN PhysicalType(unit)["length"]
            ELSE IF n = timeUnit THEN PhysicalType(unit)["time"]
            ELSE 0])

(***************************************************************************)
(* Python values.                                                          *)
(***************************************************************************)
Unbound == [kind |-> "unbound"]

Exc(type) == [kind |-> "exc", type |-> type]

PyInt(n) == [kind |-> "int", value |-> FromInt(n)]

Float64(x) == [kind |-> "float64", value |-> x]

Class(name) == [kind |-> "type", name |-> name]

Module(name) == [kind |-> "module", name |-> name]

Quantity(value, unit) == [kind |-> "quantity", value |-> value, unit |-> unit]

\* astropy.constants.c, as cell 1 prints it
SpeedOfLight ==
    [kind |-> "constant", name |-> "Speed of light in vacuum",
     value |-> FromInt(299792458), uncertainty |-> Zero,
     unit |-> UnitDiv(Named("m"), Named("s")), reference |-> "CODATA 2018"]

\* a Constant is a Quantity
IsQuantity(v) == v.kind \in {"quantity", "constant"}

IsNumber(v) == v.kind \in {"int", "float64"}

(***************************************************************************)
(* The operations of astropy.units the cells use.                          *)
(***************************************************************************)
\* q.to(unit) with the conversion factor upside down
ToInverted(q, unit) ==
    IF IsEquivalent(q.unit, unit)
    THEN Quantity(NMul(q.value, NDiv(SIScale(unit), SIScale(q.unit))), unit)
    ELSE Exc("UnitConversionError")

\* q.to(unit)
To(q, unit) ==
    IF IsEquivalent(q.unit, unit)
    THEN Quantity(NMul(q.value, NDiv(SIScale(q.unit), SIScale(unit))), unit)
    ELSE Exc("UnitConversionError")

\* q.si
SI(q) == To(q, InBases(q.unit, "m", "s"))

\* q.cgs
CGS(q) == To(q, InBases(q.unit, "cm", "s"))

\* number * unit
NumberTimesUnit(n, unit) == Quantity(n.value, unit)

\* quantity / quantity that divides the values and forgets the unit below
QuantityDivQuantityKeepsUnit(a, b) ==
    Quantity(NDiv(a.value, b.value), a.unit)

\* quantity / quantity
QuantityDivQuantity(a, b) ==
    Quantity(NDiv(a.value, b.value), UnitDiv(a.unit, b.unit))

\* quantity / unit that leaves the unit as it was
QuantityDivUnitKeepsUnit(a, unit) == Quantity(a.value, a.unit)

\* quantity / unit
QuantityDivUnit(a, unit) == Quantity(a.value, UnitDiv(a.unit, unit))

\* quantity + quantity: the right operand is converted to the left one's unit
QuantityAddQuantity(a, b) ==
    IF IsEquivalent(a.unit, b.unit)
    THEN Quantity(NAdd(a.value, To(b, a.unit).value), a.unit)
    ELSE Exc("UnitConversionError")

\* quantity + plain number that adds to the value whatever the unit
QuantityAddNumberAnyUnit(a, n) == Quantity(NAdd(a.value, n.value), a.unit)

\* quantity + plain number (not zero): for dimensionless quantities only
QuantityAddNumber(a, n) ==
    IF IsDimensionless(a.unit)
    THEN Quantity(NAdd(To(a, dimensionless_unscaled).value, n.value),
                  dimensionless_unscaled)
    ELSE Exc("UnitConversionError")

(***************************************************************************)
(* Python expressions: an operand that raised makes the expression raise.  *)
(***************************************************************************)
Lookup(names, name) ==
    IF names[name] = Unbound THEN Exc("NameError") ELSE names[name]

Attr(v, name) ==
    CASE v.kind = "exc" -> v
      [] v.kind = "module" /\ v.name = "astropy.units" ->
           CASE name = "imperial" -> Module("astropy.units.imperial")
             [] name = "hour" -> Named("h")
             [] name = "m" -> Named("m")
             [] name = "s" -> Named("s")
             [] name = "Mpc" -> Named("Mpc")
             [] name = "dimensionless_unscaled" -> dimensionless_unscaled
             [] OTHER -> Exc("AttributeError")
      [] v.kind = "module" /\ v.name = "astropy.units.imperial" ->
           IF name = "mile" THEN Named("mi") ELSE Exc("AttributeError")
      [] IsQuantity(v) ->
           CASE name = "value" -> Float64(v.value)
             [] name = "unit" -> v.unit
             [] name = "si" -> SI(v)
             [] name = "cgs" -> CGS(v)
             [] OTHER -> Exc("AttributeError")
      [] OTHER -> Exc("AttributeError")

Mul(a, b) ==
    CASE a.kind = "exc" -> a
      [] b.kind = "exc" -> b
      [] IsNumber(a) /\ b.kind = "unit" -> NumberTimesUnit(a, b)
      [] a.kind = "unit" /\ b.kind = "unit" -> UnitMul(a, b)
      [] OTHER -> Exc("TypeError")

Div(a, b) ==
    CASE a.kind = "exc" -> a
      [] b.kind = "exc" -> b
      [] IsQuantity(a) /\ IsQuantity(b) -> QuantityDivQuantity(a, b)
      [] IsQuantity(a) /\ b.kind = "unit" -> QuantityDivUnit(a, b)
      [] a.kind = "unit" /\ b.kind = "unit" -> UnitDiv(a, b)
      [] OTHER -> Exc("TypeError")

Pow(a, k) ==
    CASE a.kind = "exc" -> a
      [] a.kind = "unit" -> UnitPow(a, k)
      [] OTHER -> Exc("TypeError")

Add(a, b) ==
    CASE a.kind = "exc" -> a
      [] b.kind = "exc" -> b
      [] IsQuantity(a) /\ IsQuantity(b) -> QuantityAddQuantity(a, b)
      [] IsQuantity(a) /\ IsNumber(b) -> QuantityAddNumber(a, b)
      [] IsNumber(a) /\ IsNumber(b) -> Float64(NAdd(a.value, b.value))
      [] OTHER -> Exc("TypeError")

CallTo(q, unit) ==
    CASE q.kind = "exc" -> q
      [] unit.kind = "exc" -> unit
      [] IsQuantity(q) /\ unit.kind = "unit" -> To(q, unit)
      [] OTHER -> Exc("TypeError")

TypeOf(v) ==
    CASE v.kind = "exc" -> v
      [] v.kind = "float64" -> Class("numpy.float64")
      [] v.kind = "quantity" -> Class("astropy.units.quantity.Quantity")
      [] OTHER -> Class(v.kind)

\* 'text {}'.format(v)
Format(text, v) ==
    IF v.kind = "exc" THEN v ELSE [kind |-> "str", text |-> text, arg |-> v]

\* str(v), as print shows it: the fields of the value that appear in the text
RECURSIVE Str(_)
Str(v) ==
    CASE v.kind = "exc" -> v
      [] v.kind = "constant" ->
           [kind |-> "text", name |-> v.name, value |-> v.value,
            uncertainty |-> v.uncertainty, unit |-> v.unit,
            reference |-> v.reference]
      [] v.kind = "quantity" -> [kind |-> "text", value |-> v.value, unit |-> v.unit]
      [] v.kind = "unit" -> [kind |-> "text", unit |-> v]
      [] v.kind \in {"int", "float64"} -> [kind |-> "text", value |-> v.value]
      [] v.kind = "type" -> [kind |-> "text", class |-> v.name]
      [] v.kind = "str" -> [kind |-> "text", text |-> v.text, arg |-> Str(v.arg)]
      [] OTHER -> [kind |-> "text", text |-> v.kind]

(***************************************************************************)
(* Python statements on an environment e = [ns, out, err]: the namespace,  *)
(* the cell's output so far and the exception that ended the cell, if any. *)
(* A statement after an exception is not executed.                         *)
(***************************************************************************)
Names == {"u", "c", "mph", "boeing747_speed", "boeing747_speed_si",
          "unitless_speed", "dimensionless_speed", "answer"}

\* name = v   (also: from ... import name)
Assign(e, name, v) ==
    IF e.err # "none" THEN e
    ELSE IF v.kind = "exc" THEN [e EXCEPT !.err = v.type]
    ELSE [e EXCEPT !.ns[name] = v]

\* print(v)
PyPrint(e, v) ==
    IF e.err # "none" THEN e
    ELSE IF v.kind = "exc" THEN [e EXCEPT !.err = v.type]
    ELSE [e EXCEPT !.out = Append(e.out, Str(v))]

\* the last expression inside try/except: an exception is swallowed
DisplayCaught(e, v) ==
    IF e.err # "none" \/ v.kind = "exc" THEN e
    ELSE [e EXCEPT !.out = Append(e.out, Str(v))]

\* an expression as the last statement of a cell: its value is displayed
Display(e, v) ==
    IF e.err # "none" THEN e
    ELSE IF v.kind = "exc" THEN [e EXCEPT !.err = v.type]
    ELSE [e EXCEPT !.out = Append(e.out, Str(v))]

(***************************************************************************)
(* The code cells.                                                         *)
(***************************************************************************)
\* from astropy.constants import c
ImportC(e) == Assign(e, "c", SpeedOfLight)

\* from astropy import units as u
ImportU(e) == Assign(e, "u", Module("astropy.units"))

Mile(names) == Attr(Attr(Lookup(names, "u"), "imperial"), "mile")

Hour(names) == Attr(Lookup(names, "u"), "hour")

\* (614 * u.imperial.mile)/(1* u.hour)
FirstDefinition(names) ==
    Div(Mul(PyInt(614), Mile(names)), Mul(PyInt(1), Hour(names)))

\* 614 * (u.imperial.mile/u.hour)
SecondDefinition(names) == Mul(PyInt(614), Div(Mile(names), Hour(names)))

\* 614 * mph
ThirdDefinition(names) == Mul(PyInt(614), Lookup(names, "mph"))

\* u.m/u.s
MPerS(names) == Div(Attr(Lookup(names, "u"), "m"), Attr(Lookup(names, "u"), "s"))

\* print(c)
PrintC(e) == PyPrint(e, Lookup(e.ns, "c"))

Cell1(e) == PrintC(ImportC(e))

\* boeing747_speed = (614 * u.imperial.mile)/(1* u.hour)
AssignFirst(e) == Assign(e, "boeing747_speed", FirstDefinition(e.ns))

\* boeing747_speed = 614 * (u.imperial.mile/u.hour)
AssignSecond(e) == Assign(e, "boeing747_speed", SecondDefinition(e.ns))

\* mph = u.imperial.mile/u.hour
AssignMph(e) == Assign(e, "mph", Div(Mile(e.ns), Hour(e.ns)))

\* boeing747_speed = 614 * mph
AssignThird(e) == Assign(e, "boeing747_speed", ThirdDefinition(e.ns))

\* print(boeing747_speed)
PrintSpeed(e) == PyPrint(e, Lookup(e.ns, "boeing747_speed"))

Cell2(e) == PrintSpeed(AssignThird(AssignMph(AssignSecond(AssignFirst(ImportU(e))))))

\* print(boeing747_speed.value)
PrintValue(e) == PyPrint(e, Attr(Lookup(e.ns, "boeing747_speed"), "value"))

\* print(boeing747_speed.unit)
PrintUnit(e) == PyPrint(e, Attr(Lookup(e.ns, "boeing747_speed"), "unit"))

Cell3(e) == PrintUnit(PrintValue(e))

\* boeing747_speed_si = boeing747_speed.to(u.m/u.s)
AssignSpeedSI(e) ==
    Assign(e, "boeing747_speed_si",
           CallTo(Lookup(e.ns, "boeing747_speed"), MPerS(e.ns)))

\* boeing747_speed = boeing747_speed.to(u.m/u.s): the conversion done in place
ConvertInPlace(e) ==
    Assign(e, "boeing747_speed",
           CallTo(Lookup(e.ns, "boeing747_speed"), MPerS(e.ns)))

\* boeing747_speed_si = boeing747_speed
AliasSpeedSI(e) == Assign(e, "boeing747_speed_si", Lookup(e.ns, "boeing747_speed"))

\* print(boeing747_speed_si)
PrintSpeedSI(e) == PyPrint(e, Lookup(e.ns, "boeing747_speed_si"))

\* cell 4 with a conversion that also rebinds the original name
Cell4InPlace(e) == PrintSpeedSI(AliasSpeedSI(ConvertInPlace(e)))

Cell4(e) == PrintSpeedSI(AssignSpeedSI(e))

Cell5(e) == PrintSpeed(e)

\* print('Boeing 747 speed in SI: {}'.format(boeing747_speed.si))
PrintSI(e) ==
    PyPrint(e, Format("Boeing 747 speed in SI: {}",
                      Attr(Lookup(e.ns, "boeing747_speed"), "si")))

\* print('Boeing 747 speed in cgs: {}'.format(boeing747_speed.cgs))
PrintCGS(e) ==
    PyPrint(e, Format("Boeing 747 speed in cgs: {}",
                      Attr(Lookup(e.ns, "boeing747_speed"), "cgs")))

\* boeing747_speed = boeing747_speed.si: the conversion done in place
ConvertSIInPlace(e) ==
    Assign(e, "boeing747_speed", Attr(Lookup(e.ns, "boeing747_speed"), "si"))

\* cell 6 with a .si that also rebinds the original name
Cell6InPlace(e) == PrintCGS(PrintSI(ConvertSIInPlace(e)))

Cell6(e) == PrintCGS(PrintSI(e))

Cell7(e) == PrintSpeed(e)

\* boeing747_speed + 1* (u.Mpc**-1)
CellErrA(e) ==
    Display(e, Add(Lookup(e.ns, "boeing747_speed"),
                   Mul(PyInt(1), Pow(Attr(Lookup(e.ns, "u"), "Mpc"), 0 - 1))))

\* boeing747_speed + 1
CellErrB(e) == Display(e, Add(Lookup(e.ns, "boeing747_speed"), PyInt(1)))

\* unitless_speed = boeing747_speed.value
AssignUnitless(e) ==
    Assign(e, "unitless_speed", Attr(Lookup(e.ns, "boeing747_speed"), "value"))

\* print(type(unitless_speed))
PrintTypeUnitless(e) == PyPrint(e, TypeOf(Lookup(e.ns, "unitless_speed")))

\* print(unitless_speed + 1)
PrintUnitlessPlusOne(e) == PyPrint(e, Add(Lookup(e.ns, "unitless_speed"), PyInt(1)))

\* print(type(boeing747_speed.value))
PrintTypeValue(e) ==
    PyPrint(e, TypeOf(Attr(Lookup(e.ns, "boeing747_speed"), "value")))

\* print(boeing747_speed.value + 1)
PrintValuePlusOne(e) ==
    PyPrint(e, Add(Attr(Lookup(e.ns, "boeing747_speed"), "value"), PyInt(1)))

\* cell 8 that prints without binding unitless_speed
Cell8NoBinding(e) == PrintValuePlusOne(PrintTypeValue(e))

Cell8(e) == PrintUnitlessPlusOne(PrintTypeUnitless(AssignUnitless(e)))

\* dimensionless_speed = boeing747_speed/(boeing747_speed.unit)
AssignDimensionless(e) ==
    Assign(e, "dimensionless_speed",
           Div(Lookup(e.ns, "boeing747_speed"),
               Attr(Lookup(e.ns, "boeing747_speed"), "unit")))

\* print(type(dimensionless_speed))
PrintTypeDimensionless(e) == PyPrint(e, TypeOf(Lookup(e.ns, "dimensionless_speed")))

Cell9(e) == PrintUnitlessPlusOne(PrintTypeDimensionless(AssignDimensionless(e)))

\* answer = (c/boeing747_speed).to(u.dimensionless_unscaled)
AssignAnswer(e) ==
    Assign(e, "answer",
           CallTo(Div(Lookup(e.ns, "c"), Lookup(e.ns, "boeing747_speed")),
                  Attr(Lookup(e.ns, "u"), "dimensionless_unscaled")))

\* print('The speed of light is about {} times faster than a boeing747'.format(answer))
PrintAnswer(e) ==
    PyPrint(e, Format("The speed of light is about {} times faster than a boeing747",
                      Lookup(e.ns, "answer")))

\* boeing747_speed = 614 * (u.m/u.s)
AssignOtherSpeed(e) == Assign(e, "boeing747_speed", Mul(PyInt(614), MPerS(e.ns)))

\* cell 10 that redefines the speed in metres per second
Cell10OtherSpeed(e) == PrintAnswer(AssignAnswer(AssignOtherSpeed(ImportU(ImportC(e)))))

Cell10(e) == PrintAnswer(AssignAnswer(AssignSecond(ImportU(ImportC(e)))))

\* the code cells in notebook order; eA and eB are the two cells the notebook
\* leaves unexecuted (execution_count null)
Cells == <<"c1", "c2", "c3", "c4", "c5", "c6", "c7", "eA", "eB", "c8", "c9", "c10">>

CellIds == {Cells[i] : i \in 1..Len(Cells)}

ErrorCells == {"eA", "eB"}

Body(k, e) ==
    CASE k = "c1" -> Cell1(e)
      [] k = "c2" -> Cell2(e)
      [] k = "c3" -> Cell3(e)
      [] k = "c4" -> Cell4(e)
      [] k = "c5" -> Cell5(e)
      [] k = "c6" -> Cell6(e)
      [] k = "c7" -> Cell7(e)
      [] k = "eA" -> CellErrA(e)
      [] k = "eB" -> CellErrB(e)
      [] k = "c8" -> Cell8(e)
      [] k = "c9" -> Cell9(e)
      [] k = "c10" -> Cell10(e)

\* the kernel executes cell k in the current namespace
Result(k) == Body(k, [ns |-> ns, out |-> <<>>, err |-> "none"])

(***************************************************************************)
(* The state machine.                                                      *)
(***************************************************************************)
Init ==
    /\ ns = [n \in Names |-> Unbound]
    /\ out = <<>>
    /\ err = "none"
    /\ last = "none"
    /\ queue = <<>>
    /\ mode = "idle"

\* the user runs one cell
Run(k) ==
    /\ queue = <<>>
    /\ ns' = Result(k).ns
    /\ out' = Result(k).out
    /\ err' = Result(k).err
    /\ last' = k
    /\ UNCHANGED <<queue, mode>>

\* the user runs the notebook top to bottom
RunAll ==
    /\ queue = <<>>
    /\ queue' = Cells
    /\ mode' = "all"
    /\ UNCHANGED <<ns, out, err, last>>

IsNotErrorCell(k) == k \notin ErrorCells

\* the user runs the notebook top to bottom without the two cells that are
\* meant to raise
RunAllButErrorCells ==
    /\ queue = <<>>
    /\ queue' = SelectSeq(Cells, IsNotErrorCell)
    /\ mode' = "skip"
    /\ UNCHANGED <<ns, out, err, last>>

\* the kernel executes the next queued cell; an exception drops the rest
Step ==
    /\ queue # <<>>
    /\ ns' = Result(Head(queue)).ns
    /\ out' = Result(Head(queue)).out
    /\ err' = Result(Head(queue)).err
    /\ last' = Head(queue)
    /\ queue' = IF Result(Head(queue)).err # "none" THEN <<>> ELSE Tail(queue)
    /\ mode' = IF queue' = <<>> THEN "idle" ELSE mode

Next ==
    \/ \E k \in CellIds : Run(k)
    \/ RunAll
    \/ RunAllButErrorCells
    \/ Step

Spec == Init /\ [][Next]_vars

(***************************************************************************)
(* Vocabulary of the properties.                                           *)
(***************************************************************************)
MilePerHour == UnitDiv(Named("mi"), Named("h"))

MetrePerSecond == UnitDiv(Named("m"), Named("s"))

CentimetrePerSecond == UnitDiv(Named("cm"), Named("s"))

\* 614.0 mi / h
Boeing == Quantity(FromInt(614), MilePerHour)

\* 274.48256 m / s
BoeingSI == Quantity(FromDec(27448256, 5), MetrePerSecond)

\* 27448.256 cm / s
BoeingCGS == Quantity(FromDec(27448256, 3), CentimetrePerSecond)

Bound(n) == ns[n] # Unbound

\* this step is the execution of cell k
Executes(k) ==
    \/ queue = <<>> /\ Run(k)
    \/ queue # <<>> /\ Head(queue) = k /\ Step

\* the prime factors of the numerator of x, largest first
RECURSIVE FactorsDown(_)
FactorsDown(e) ==
    IF \A p \in Primes : e[p] <= 0 THEN <<>>
    ELSE LET p == CHOOSE q \in Primes :
                    e[q] > 0 /\ \A r \in Primes : e[r] > 0 => r <= q
         IN  <<p>> \o FactorsDown([e EXCEPT ![p] = e[p] - 1])

\* [q, r] with  q + r/d = (q0 + r0/d) * product of fs,  0 <= r < d
RECURSIVE LongMul(_, _, _, _)
LongMul(q0, r0, d, fs) ==
    IF fs = <<>> THEN [q |-> q0, r |-> r0]
    ELSE LongMul(q0 * Head(fs) + (r0 * Head(fs)) \div d,
                 (r0 * Head(fs)) % d, d, Tail(fs))

\* the integer part of a number x > 0 with a denominator > 1
Floor(x) == LongMul(0, 1, Denom(x), FactorsDown(x.e)).q

(***************************************************************************)
(* Properties.                                                             *)
(***************************************************************************)

\* C1: when cell 4 (boeing747_speed_si = boeing747_speed.to(u.m/u.s)) runs
\* without an exception, boeing747_speed is still 614.0 mi / h, every name
\* but boeing747_speed_si keeps its binding, and boeing747_speed_si is bound
\* to the converted quantity, in m / s.
C1_ToLeavesOriginal ==
    [][(Executes("c4") /\ err' = "none") =>
          /\ ns["boeing747_speed"] = Boeing
          /\ \A n \in Names \ {"boeing747_speed_si"} : ns'[n] = ns[n]
          /\ ns'["boeing747_speed_si"] = To(ns["boeing747_speed"], MetrePerSecond)
          /\ ns'["boeing747_speed_si"] # ns'["boeing747_speed"]]_vars

C1_Witness ==
    /\ last = "c4" /\ err = "none"
    /\ ns["boeing747_speed"] = Boeing
    /\ ns["boeing747_speed_si"].unit = MetrePerSecond

\* C2: when cell 6 (the prints of boeing747_speed.si and .cgs) runs without
\* an exception, boeing747_speed is still 614.0 mi / h and no name of the
\* notebook is rebound, while the cell did print the two converted quantities.
C2_SiCgsLeaveOriginal ==
    [][(Executes("c6") /\ err' = "none") =>
          /\ ns' = ns
          /\ ns'["boeing747_speed"] = Boeing
          /\ Len(out') = 2
          /\ out'[1].arg.unit = MetrePerSecond
          /\ out'[2].arg.unit = CentimetrePerSecond]_vars

C2_Witness ==
    /\ last = "c6" /\ err = "none" /\ Len(out) = 2
    /\ ns["boeing747_speed"] = Boeing

\* C3: with boeing747_speed (and u) bound, boeing747_speed + 1*(u.Mpc**-1)
\* and boeing747_speed + 1 both raise UnitConversionError and display no
\* result.
C3_IncompatibleAddRaises ==
    /\ (Bound("boeing747_speed") /\ Bound("u")) =>
          /\ Result("eA").err = "UnitConversionError"
          /\ Result("eA").out = <<>>
    /\ Bound("boeing747_speed") =>
          /\ Result("eB").err = "UnitConversionError"
          /\ Result("eB").out = <<>>
    /\ (last \in ErrorCells /\ Bound("boeing747_speed") /\ Bound("u")) =>
          /\ err = "UnitConversionError"
          /\ out = <<>>

C3_Witness ==
    /\ last = "eB" /\ err = "UnitConversionError" /\ out = <<>>
    /\ ns["boeing747_speed"] = Boeing
    /\ Result("eA").err = "UnitConversionError"

\* C4: when one of the two error cells runs, its exception leaves the cell
\* (nothing in the notebook catches it): the cell ends with the exception,
\* UnitConversionError when the names it reads are bound, the cells queued
\* behind it are dropped, and every name keeps the binding it had.
C4_ErrorPropagates ==
    [][\A k \in ErrorCells : Executes(k) =>
          /\ err' # "none"
          /\ (Bound("boeing747_speed") /\ Bound("u")) => err' = "UnitConversionError"
          /\ ns' = ns
          /\ queue' = <<>>]_vars

C4_Witness ==
    /\ last = "eA" /\ err = "UnitConversionError"
    /\ \A n \in {"boeing747_speed", "mph", "boeing747_speed_si", "c"} : Bound(n)

\* C5: adding the plain number 1 to a quantity of the notebook succeeds
\* exactly when its unit has no physical dimension (answer is left out: the
\* sum answer + 1 has prime factors outside Primes); boeing747_speed divided
\* by its unit is a dimensionless Quantity of value 614.0, and adding 1 to it
\* gives 615.0, the number boeing747_speed.value + 1.
C5_OnlyDimensionlessAddsNumber ==
    /\ \A n \in Names \ {"answer"} : IsQuantity(ns[n]) =>
          ((Add(ns[n], PyInt(1)).kind # "exc")
             <=> (\A d \in {"length", "time"} : PhysicalType(ns[n].unit)[d] = 0))
    /\ Bound("dimensionless_speed") =>
          /\ ns["dimensionless_speed"] = Quantity(FromInt(614), dimensionless_unscaled)
          /\ Add(ns["dimensionless_speed"], PyInt(1)).kind = "quantity"
          /\ Add(ns["dimensionless_speed"], PyInt(1)).value = FromInt(615)
          /\ Add(ns["dimensionless_speed"], PyInt(1)).value
                = Add(Attr(ns["boeing747_speed"], "value"), PyInt(1)).value

C5_Witness ==
    /\ last = "c9" /\ err = "none"
    /\ IsDimensionless(ns["dimensionless_speed"].unit)
    /\ out[2].value = FromInt(615)

\* C6: wherever the three definitions of cell 2 can be evaluated they give
\* the same quantity, of .value 614.0 and .unit mi / h, and that is what
\* boeing747_speed is after cell 2.
C6_ThreeDefinitionsAgree ==
    /\ (Bound("u") /\ Bound("mph")) =>
          /\ FirstDefinition(ns) = SecondDefinition(ns)
          /\ SecondDefinition(ns) = ThirdDefinition(ns)
          /\ Attr(FirstDefinition(ns), "value") = Float64(FromInt(614))
          /\ Attr(FirstDefinition(ns), "unit") = MilePerHour
    /\ (last = "c2" /\ err = "none") =>
          /\ ns["boeing747_speed"] = FirstDefinition(ns)
          /\ out = <<Str(Boeing)>>

C6_Witness ==
    /\ last = "c2" /\ err = "none"
    /\ ns["boeing747_speed"] = Boeing
    /\ ns["mph"] = MilePerHour

\* C7: boeing747_speed.to(u.m/u.s) and boeing747_speed.si are the same
\* quantity, 274.48256 m / s = 614 * 1609.344 / 3600 m / s, and
\* boeing747_speed.cgs is 27448.256 cm / s, 100 times the SI value; these are
\* the quantities cells 4 and 6 bind and print.
C7_ConversionValues ==
    /\ Bound("boeing747_speed") =>
          /\ To(ns["boeing747_speed"], MetrePerSecond) = BoeingSI
          /\ Attr(ns["boeing747_speed"], "si") = BoeingSI
          /\ BoeingSI.value
                = NDiv(NMul(FromInt(614), FromDec(1609344, 3)), FromInt(3600))
          /\ Attr(ns["boeing747_speed"], "cgs") = BoeingCGS
          /\ Attr(ns["boeing747_speed"], "cgs").value
                = NMul(Attr(ns["boeing747_speed"], "si").value, FromInt(100))
    /\ Bound("boeing747_speed_si") => ns["boeing747_speed_si"] = BoeingSI
    /\ (last = "c6" /\ err = "none") =>
          /\ out[1].arg = Str(BoeingSI)
          /\ out[2].arg = Str(BoeingCGS)

C7_Witness ==
    /\ last = "c6" /\ err = "none"
    /\ out[1].arg = Str(BoeingSI)
    /\ ns["boeing747_speed_si"] = BoeingSI

\* C8: cell 10 ends without an exception, and answer is the dimensionless
\* quantity 299792458 / 274.48256 = 1092209.494..., not 299792458 / 614.
C8_RatioOfSpeeds ==
    /\ last = "c10" => (err = "none" /\ Bound("answer"))
    /\ Bound("answer") =>
          /\ ns["answer"].kind = "quantity"
          /\ ns["answer"].unit = dimensionless_unscaled
          /\ ns["answer"].value = NDiv(FromInt(299792458), BoeingSI.value)
          /\ ns["answer"].value # NDiv(FromInt(299792458), FromInt(614))
          /\ Floor(NMul(ns["answer"].value, FromInt(1000))) = 1092209494

C8_Witness ==
    /\ last = "c10" /\ err = "none"
    /\ Floor(ns["answer"].value) = 1092209
    /\ out[1].arg = Str(ns["answer"])

\* C9: in every state of every execution order, boeing747_speed is unbound
\* or 614 mi / h, and c is unbound or the constant of value 299792458.0,
\* uncertainty 0.0 and unit m / s.
C9_BindingsInvariant ==
    /\ Bound("boeing747_speed") => ns["boeing747_speed"] = Boeing
    /\ Bound("c") =>
          /\ ns["c"].kind = "constant"
          /\ ns["c"].value = FromInt(299792458)
          /\ ns["c"].uncertainty = Zero
          /\ ns["c"].unit = MetrePerSecond

C9_Witness ==
    /\ last = "c10" /\ err = "none"
    /\ Bound("mph")
    /\ ns["boeing747_speed"] = Boeing
    /\ ns["c"] = SpeedOfLight

\* C10: a top-to-bottom run without the two error cells executes every cell
\* without an exception and ends with cell 10; cell 9 ends in a NameError
\* when unitless_speed is unbound; a top-to-bottom run with the error cells
\* stops at the first of them and executes no cell after it.
C10_LinearRun ==
    [][/\ (mode = "skip" /\ queue # <<>>) =>
             /\ err' = "none"
             /\ last' = Head(queue)
             /\ queue' = Tail(queue)
             /\ (Len(queue) = 1 => last' = "c10")
       /\ (Executes("c9") /\ ~Bound("unitless_speed")) => err' = "NameError"
       /\ (mode = "all" /\ queue # <<>>) =>
             /\ last' \in {"c1", "c2", "c3", "c4", "c5", "c6", "c7", "eA"}
             /\ (last' = "eA" => (err' # "none" /\ queue' = <<>>))]_vars

C10_Witness ==
    /\ mode = "skip" /\ queue = <<"c10">>
    /\ last = "c9" /\ err = "none"

====
